---- MODULE Spec2Model ----
(***************************************************************************)
(* Model of generate.py: the SPARQL query builder (sparql) and the         *)
(* fetch-and-persist driver (__main__, gen, run_query, append_queries_md). *)
(* Python strings are TLA+ strings; Len, \o and SubSeq act on them         *)
(* character by character.                                                 *)
(***************************************************************************)
EXTENDS Integers, Sequences, FiniteSets, TLC

(***************************************************************************)
(* String helpers                                                          *)
(***************************************************************************)

\* s[i], the i-th character of a string.
CharAt(s, i) == SubSeq(s, i, i)

\* '\n'.join(...) and friends: str.join of a sequence of strings.
RECURSIVE Join(_, _)
Join(sep, parts) ==
  IF Len(parts) = 0 THEN ""
  ELSE IF Len(parts) = 1 THEN parts[1]
  ELSE parts[1] \o sep \o Join(sep, Tail(parts))

\* Concatenation of a sequence of strings, by halving.
RECURSIVE Concat(_)
Concat(parts) ==
  IF Len(parts) = 0 THEN ""
  ELSE IF Len(parts) = 1 THEN parts[1]
  ELSE LET h == Len(parts) \div 2
       IN  Concat(SubSeq(parts, 1, h)) \o Concat(SubSeq(parts, h + 1, Len(parts)))

\* The positions at which sub occurs in s.
Occurrences(s, sub) ==
  {i \in 1..(Len(s) - Len(sub) + 1) : SubSeq(s, i, i + Len(sub) - 1) = sub}

\* str.find: the first position of sub in s at or after from, 0 when there is none.
Find(s, sub, from) ==
  LET occ == {i \in Occurrences(s, sub) : i >= from}
  IN  IF occ = {} THEN 0 ELSE CHOOSE i \in occ : \A j \in occ : i <= j

Lower == {"a","b","c","d","e","f","g","h","i","j","k","l","m",
          "n","o","p","q","r","s","t","u","v","w","x","y","z"}
Upper == {"A","B","C","D","E","F","G","H","I","J","K","L","M",
          "N","O","P","Q","R","S","T","U","V","W","X","Y","Z"}
Digit == {"0","1","2","3","4","5","6","7","8","9"}

(***************************************************************************)
(* string.Template.substitute                                              *)
(***************************************************************************)

\* Characters of a Template identifier: [_a-z][_a-z0-9]*, ASCII, case-insensitive.
IdStart == Lower \cup Upper \cup {"_"}
IdChar  == IdStart \cup Digit

\* Last position of the identifier whose first character is at position i of t.
RECURSIVE IdentEnd(_, _)
IdentEnd(t, i) ==
  IF i < Len(t) /\ CharAt(t, i + 1) \in IdChar THEN IdentEnd(t, i + 1) ELSE i

\* The text of t from position from on, with the placeholders, which start at
\* the positions dollars, replaced.
RECURSIVE SubstituteFrom(_, _, _, _)
SubstituteFrom(t, m, from, dollars) ==
  LET next == {d \in dollars : d >= from}
      d    == CHOOSE k \in next : \A j \in next : k <= j
  IN  IF next = {} THEN SubSeq(t, from, Len(t))
      ELSE IF d < Len(t) /\ CharAt(t, d + 1) = "$"
           THEN SubSeq(t, from, d) \o SubstituteFrom(t, m, d + 2, dollars)
      ELSE LET e == IdentEnd(t, d + 1)
           IN  SubSeq(t, from, d - 1) \o m[SubSeq(t, d + 1, e)]
                 \o SubstituteFrom(t, m, e + 1, dollars)

\* Template(t).substitute(m): every $name is replaced by m[name], "$$" by "$";
\* the text between placeholders is copied.  The templates of generate.py use
\* neither ${name} nor a "$" that starts no identifier.
Substitute(t, m) == SubstituteFrom(t, m, 1, Occurrences(t, "$"))

(***************************************************************************)
(* The templates                                                           *)
(***************************************************************************)

\* The template up to the clauses of the inner WHERE block.
TemplateHead == <<
    "\n",
    "#defaultView:MapRegions\n",
    "# version 8\n",
    "SELECT\n",
    "  (if(bound(?id2),?id2,?id1) as ?id)\n",
    "  $outputVars\n",
    "WHERE {\n",
    "# Using nested query to ensure there is only one ?id2 value\n",
    "{SELECT\n",
    "  ?id1\n",
    "  (SAMPLE(?id2) as ?id2)\n",
    "$outputs\n",
    "WHERE {\n",
    "  # List of regions, whose sub-regions we want.\n",
    "  VALUES ?entity { $entities }\n",
    "\n",
    "  # P150 = \"contains administrative territorial entity\"\n",
    "  ?entity $depth ?id1 .\n",
    "\n" >>

\* A template with the condition as the last clause of the block.
TemplateClauses_ConditionLast == <<
    "$use_id2\n",
    "$labels\n",
    "$fields\n",
    "$condition\n" >>

\* The clauses of the inner WHERE block, in the order of the template.
TemplateClauses == <<
    "$use_id2\n",
    "$condition\n",
    "$labels\n",
    "$fields\n" >>

TemplateTail == <<
    "}\n",
    "# remove possible ID duplicates\n",
    "GROUP BY ?id1}\n",
    "}\n" >>

query_template == Concat(TemplateHead \o TemplateClauses \o TemplateTail)

label_query_template ==
  "  OPTIONAL { ?id1 rdfs:label ?label_$lang . FILTER(LANG(?label_$lang) = \"$lang\") }"
field_query_template == "  OPTIONAL { ?id1 wdt:$prop ?$var }"
var_out_template     == "  (SAMPLE(?$var) as ?$var)"
condition_template   == "  FILTER($cond)"

(***************************************************************************)
(* sparql(entities, labels, fields, depth, condition, id2_generator)       *)
(*                                                                         *)
(* entities is a string, Str(e), or a list of strings, List(es); fields, a  *)
(* dict, is the sequence of its <<key, value>> items in insertion order    *)
(* (keys are distinct); condition is a string, "" standing for the falsy   *)
(* default.                                                                *)
(***************************************************************************)

Str(e)   == [type |-> "str",  str |-> e,  list |-> <<>>]
List(es) == [type |-> "list", str |-> "", list |-> es]

Keys(fields) == [i \in 1..Len(fields) |-> fields[i][1]]

LabelVar(v)    == "label_" \o v
EntityRef(e)   == "wd:" \o e
VarRef(v)      == "?" \o v
LabelClause(l) == Substitute(label_query_template, [lang |-> l])
\* A field clause with the key taken for the property.
FieldClause_Swapped(f) == Substitute(field_query_template, [var |-> f[2], prop |-> f[1]])
FieldClause(f) == Substitute(field_query_template, [var |-> f[1], prop |-> f[2]])
VarOut(v)      == Substitute(var_out_template, [var |-> v])

\* A path one hop too long: range(depth + 1).
DepthPath_OneMore(depth) == Join("/", [i \in 1..(depth + 1) |-> "wdt:P150"])

\* '/'.join(['wdt:P150' for i in range(depth)])
DepthPath(depth) == Join("/", [i \in 1..depth |-> "wdt:P150"])

ConditionClause(condition) ==
  IF condition = "" THEN ""
  ELSE Substitute(condition_template, [cond |-> condition])

sparql(entities0, labels, fields, depth, condition, id2_generator) ==
  LET entities   == IF entities0.type = "str" THEN <<entities0.str>> ELSE entities0.list
      outputVars == Keys(fields) \o [i \in 1..Len(labels) |-> LabelVar(labels[i])]
  IN  Substitute(query_template,
        [ entities   |-> Join(" ", [i \in 1..Len(entities) |-> EntityRef(entities[i])]),
          depth      |-> DepthPath(depth),
          labels     |-> Join("\n", [i \in 1..Len(labels) |-> LabelClause(labels[i])]),
          fields     |-> Join("\n", [i \in 1..Len(fields) |-> FieldClause(fields[i])]),
          outputs    |-> Join("\n", [i \in 1..Len(outputVars) |-> VarOut(outputVars[i])]),
          outputVars |-> Join(" ", [i \in 1..Len(outputVars) |-> VarRef(outputVars[i])]),
          condition  |-> ConditionClause(condition),
          use_id2    |-> Join("\n", id2_generator) ])

(***************************************************************************)
(* urllib.parse.quote(s), safe = '/'                                       *)
(***************************************************************************)

\* The printable ASCII characters in code order: 32 (space) to 95 (_), and
\* 97 (a) to 126 (~).  Code 96, the backquote, occurs in no query.
Printable32 == " !\"#$%&'()*+,-./0123456789:;<=>?@ABCDEFGHIJKLMNOPQRSTUVWXYZ[\\]^_"
Printable97 == "abcdefghijklmnopqrstuvwxyz{|}~"

HexDigits == "0123456789ABCDEF"

\* ord(c) for the characters the queries are made of.
CharCode(c) ==
  IF c = "\n" THEN 10
  ELSE IF Find(Printable32, c, 1) > 0 THEN 31 + Find(Printable32, c, 1)
  ELSE 96 + Find(Printable97, c, 1)

\* Characters quote() never encodes: the unreserved ones and the default safe '/'.
AlwaysSafe == Lower \cup Upper \cup Digit \cup {"_", ".", "-", "~"}
QuoteSafe  == AlwaysSafe \cup {"/"}

QuoteChar(c) ==
  IF c \in QuoteSafe THEN c
  ELSE "%" \o CharAt(HexDigits, (CharCode(c) \div 16) + 1)
           \o CharAt(HexDigits, (CharCode(c) % 16) + 1)

quote(s) == Concat([i \in 1..Len(s) |-> QuoteChar(CharAt(s, i))])

(***************************************************************************)
(* The catalog: the gen(...) calls of __main__, in order                  *)
(***************************************************************************)

Entry(n, e, l, f, d, c, g) ==
  [name |-> n, entities |-> e, labels |-> l, fields |-> f,
   depth |-> d, condition |-> c, id2_generator |-> g]

Iso == << <<"iso_3166_2", "P300">> >>

Catalog == <<
  Entry("canada",         Str("Q16"),  <<"en", "fr">>, Iso, 1, "", <<>>),
  Entry("germany",        Str("Q183"), <<"en", "de">>, Iso, 1, "", <<>>),
  Entry("united_kingdom", Str("Q145"), <<"en">>,       Iso, 1, "", <<>>),
  Entry("france",         Str("Q142"), <<"en", "fr">>, Iso, 1, "", <<>>),
  Entry("spain",          Str("Q29"),  <<"en", "es">>, Iso, 1, "", <<>>),
  Entry("russia",         Str("Q159"), <<"en", "ru">>, Iso, 1, "", <<>>),
  Entry("india",          Str("Q668"), <<"en">>,       Iso, 1, "", <<>>),
  Entry("japan",          Str("Q17"),  <<"en", "ja">>, Iso, 1, "", <<>>),
  Entry("australia",      Str("Q408"), <<"en">>,       Iso, 1, "", <<>>),
  Entry("netherland",     Str("Q55"),  <<"en", "nl">>, Iso, 1, "", <<>>),
  Entry("south korea",    Str("Q884"), <<"en", "ko">>, Iso, 1, "", <<>>),
  Entry("brazil",         Str("Q155"), <<"en", "pt">>, Iso, 1, "", <<>>),
  Entry("sweden",         Str("Q34"),  <<"en", "sv">>, Iso, 1, "", <<>>),
  Entry("poland",         Str("Q36"),  <<"en", "pl">>, Iso, 1, "", <<>>),
  Entry("turkey",         Str("Q43"),  <<"en", "tr">>, Iso, 1, "", <<>>),
  Entry("china",          Str("Q148"), <<"en", "zh">>,
        << <<"iso_3166_2", "P300">>, <<"division_code", "P442">> >>, 1, "",
        <<"BIND(if(?id1=wd:Q57251, wd:Q865, ?id1)  AS ?id2)">>),
  Entry("us_states",      Str("Q30"),  <<"en">>,
        << <<"iso_3166_2", "P300">>, <<"fips_5_2_alpha", "P883">> >>, 1,
        "!BOUND(?fips_5_2_alpha) || REGEX(?fips_5_2_alpha, \"[A-Z]{2}\")", <<>>),
  Entry("us_counties",    Str("Q30"),  <<"en">>,
        << <<"fips_6_4_alpha", "P882">>, <<"gnis", "P590">>, <<"viaf", "P214">> >>, 2, "",
        <<"OPTIONAL { ?id1 wdt:P3403 ?id2 . }">>) >>

N == Len(Catalog)

\* The query argument of the i-th gen call.
Query == [i \in 1..N |->
            sparql(Catalog[i].entities, Catalog[i].labels, Catalog[i].fields,
                   Catalog[i].depth, Catalog[i].condition, Catalog[i].id2_generator)]

(***************************************************************************)
(* The driver: __main__, gen, run_query, append_queries_md                 *)
(***************************************************************************)

\* Number of successive runs of the script that are explored.
MaxRuns == 2

VARIABLES
  run,       \* number of the current run of the script
  pc,        \* position of the run in __main__
  idx,       \* index of the gen call in progress (0 before the first)
  fs,        \* the script directory: path -> [exists, text]
  response,  \* the response of the latest requests.get of the run
  statuses,  \* what the network answered in this run: status codes, 0 = no response
  log,       \* the file and network operations of this run, in order
  args,      \* the arguments of a call of sparql
  out,       \* what that call returned ("" before the call)
  row        \* one result row of the query

dvars == <<run, pc, idx, fs, response, statuses, log>>
bvars == <<args, out, row>>
vars  == <<dvars, bvars>>

\* dirname(realpath(__file__))
ScriptDir == "/scripted-regions"

\* os.path.join of the script directory and the given components.
filepath(values) == Join("/", <<ScriptDir>> \o values)

QueriesPath == filepath(<<"QUERIES.md">>)
ArtifactPath(filetype, name) == filepath(<<filetype, name \o "." \o filetype>>)

FileTypes == <<"topojson", "geojson">>
Paths == {QueriesPath} \cup
         {ArtifactPath(FileTypes[t], Catalog[i].name) : t \in 1..2, i \in 1..N}

NoFile     == [exists |-> FALSE, text |-> ""]
File(text) == [exists |-> TRUE, text |-> text]

Header == "# Auto-generated list of queries\n\n"

\* The text gen appends to QUERIES.md, and the URL run_query requests.
ManifestLine(name, query) ==
  "* [" \o name \o "](https://sophox.org/sophox/#" \o quote(query) \o ")\n"
RequestUrl(filetype, query) ==
  "https://sophox.org/regions/" \o filetype \o ".json?sparql=" \o quote(query)

\* The lines gen appends and the URLs run_query requests, per catalog entry.
Line == [i \in 1..N |-> ManifestLine(Catalog[i].name, Query[i])]
Url  == [t \in 1..2 |-> [i \in 1..N |-> RequestUrl(FileTypes[t], Query[i])]]

\* What the endpoint serves during a run.
ResponseText(r) == "regions-v" \o ToString(r)

\* Status codes the endpoint may answer with, one of each class that
\* requests.get hands back to the caller.
StatusCodes == {200, 304, 404, 500}
NoResponse  == [status |-> 0, text |-> ""]

\* A raise_for_status that takes only the server errors for failures.
raise_for_status_5xx(status) == 500 <= status /\ status < 600

\* Response.raise_for_status raises HTTPError for 4xx and 5xx.
raise_for_status(status) == 400 <= status /\ status < 600

Event(op, arg) == [op |-> op, arg |-> arg]

\* open(path, 'a').write(text): creates the file when missing, appends.
AppendTo(f, text) == File(f.text \o text)

NoArgs == [entities |-> List(<<>>), labels |-> <<>>, fields |-> <<>>,
           depth |-> 1, condition |-> "", id2_generator |-> <<>>]
NoRow  == [id1 |-> "", cand |-> {}, id2 |-> "", id |-> ""]

\* QUERIES.md as a previous complete run left it.
FullManifest == File(Header \o Concat(Line))

Init ==
  /\ run = 1
  /\ pc = "remove"
  /\ idx = 0
  /\ \E m \in {NoFile, FullManifest}, a \in {NoFile, File("regions-v0")} :
       fs = [p \in Paths |-> IF p = QueriesPath THEN m ELSE a]
  /\ response = NoResponse
  /\ statuses = {}
  /\ log = <<>>
  /\ args = NoArgs
  /\ out = ""
  /\ row = NoRow

\* A remove that reports success and leaves the file.
RemoveOk_KeepsFile ==
  /\ pc = "remove"
  /\ fs[QueriesPath].exists
  /\ log' = Append(log, Event("remove", QueriesPath))
  /\ pc' = "header"
  /\ UNCHANGED <<run, idx, fs, response, statuses>>
  /\ UNCHANGED bvars

\* remove(filepath('QUERIES.md')) succeeds.
RemoveOk ==
  /\ pc = "remove"
  /\ fs[QueriesPath].exists
  /\ fs' = [fs EXCEPT ![QueriesPath] = NoFile]
  /\ log' = Append(log, Event("remove", QueriesPath))
  /\ pc' = "header"
  /\ UNCHANGED <<run, idx, response, statuses>>
  /\ UNCHANGED bvars

\* remove raises FileNotFoundError; the handler re-raises it.
RemoveNotFound ==
  /\ pc = "remove"
  /\ ~fs[QueriesPath].exists
  /\ pc' = "aborted"
  /\ log' = Append(log, Event("raise", "FileNotFoundError"))
  /\ UNCHANGED <<run, idx, fs, response, statuses>>
  /\ UNCHANGED bvars

\* remove raises another OSError (the file is there but cannot be deleted);
\* the handler re-raises it.
RemoveDenied ==
  /\ pc = "remove"
  /\ fs[QueriesPath].exists
  /\ pc' = "aborted"
  /\ log' = Append(log, Event("raise", "PermissionError"))
  /\ UNCHANGED <<run, idx, fs, response, statuses>>
  /\ UNCHANGED bvars

\* append_queries_md(text)
append_queries_md(text) ==
  /\ fs' = [fs EXCEPT ![QueriesPath] = AppendTo(@, text)]
  /\ log' = Append(log, Event("append", text))

\* A gen that forgets the geojson request, and one that documents the query
\* only after the first download.
GenSteps_NoGeojson  == <<"append", "topojson">>
GenSteps_QueryFirst == <<"topojson", "append", "geojson">>

\* The statements of gen, in order: the manifest line, then one run_query per
\* file type.
GenSteps == <<"append", "topojson", "geojson">>

\* Where __main__ continues after the statement of gen at pc: the next
\* statement of gen, the next gen call, or the end of the script.
Advance ==
  LET k == CHOOSE j \in 1..Len(GenSteps) : GenSteps[j] = pc
  IN  IF k < Len(GenSteps) THEN /\ pc' = GenSteps[k + 1]
                                /\ idx' = idx
      ELSE IF idx < N THEN /\ pc' = GenSteps[1]
                           /\ idx' = idx + 1
      ELSE /\ pc' = "done"
           /\ idx' = idx

\* append_queries_md('# Auto-generated list of queries\n\n'), and the first
\* gen call begins.
WriteHeader ==
  /\ pc = "header"
  /\ append_queries_md(Header)
  /\ pc' = GenSteps[1]
  /\ idx' = 1
  /\ UNCHANGED <<run, response, statuses>>
  /\ UNCHANGED bvars

\* gen: append_queries_md of the manifest line of the entry.
GenAppend ==
  /\ pc = "append"
  /\ append_queries_md(Line[idx])
  /\ Advance
  /\ UNCHANGED <<run, response, statuses>>
  /\ UNCHANGED bvars

\* run_query(filetype, name, query) with a response: raise_for_status lets it
\* pass and the body is written, or raises and the run ends.
RunQueryResponse(t) ==
  /\ pc = FileTypes[t]
  /\ \E status \in StatusCodes :
       LET url  == Url[t][idx]
           resp == [status |-> status, text |-> ResponseText(run)]
           path == ArtifactPath(FileTypes[t], Catalog[idx].name)
       IN  /\ response' = resp
           /\ statuses' = statuses \cup {status}
           /\ IF raise_for_status(status)
              THEN /\ log' = log \o <<Event("get", url), Event("raise", "HTTPError")>>
                   /\ pc' = "aborted"
                   /\ UNCHANGED <<idx, fs>>
              ELSE /\ log' = log \o <<Event("get", url), Event("write", path)>>
                   /\ fs' = [fs EXCEPT ![path] = File(resp.text)]
                   /\ Advance
  /\ UNCHANGED run
  /\ UNCHANGED bvars

\* A run_query that swallows the exception of requests.get and returns.
RunQueryNoResponse_Swallowed(t) ==
  /\ pc = FileTypes[t]
  /\ log' = Append(log, Event("get", Url[t][idx]))
  /\ statuses' = statuses \cup {0}
  /\ Advance
  /\ UNCHANGED <<run, fs, response>>
  /\ UNCHANGED bvars

\* run_query(filetype, name, query): requests.get raises (connection error,
\* timeout); nothing is written and the run ends.
RunQueryNoResponse(t) ==
  /\ pc = FileTypes[t]
  /\ log' = log \o <<Event("get", Url[t][idx]), Event("raise", "ConnectionError")>>
  /\ statuses' = statuses \cup {0}
  /\ pc' = "aborted"
  /\ UNCHANGED <<run, idx, fs, response>>
  /\ UNCHANGED bvars

\* The script is run again after a run that completed.
NextRun ==
  /\ pc = "done"
  /\ run < MaxRuns
  /\ run' = run + 1
  /\ pc' = "remove"
  /\ idx' = 0
  /\ response' = NoResponse
  /\ statuses' = {}
  /\ log' = <<>>
  /\ UNCHANGED fs
  /\ UNCHANGED bvars

Next ==
  \/ RemoveOk
  \/ RemoveNotFound
  \/ RemoveDenied
  \/ WriteHeader
  \/ GenAppend
  \/ RunQueryResponse(1)
  \/ RunQueryResponse(2)
  \/ RunQueryNoResponse(1)
  \/ RunQueryNoResponse(2)
  \/ NextRun

Spec == Init /\ [][Next]_vars

(***************************************************************************)
(* Calls of sparql on other arguments than the catalog's, and the rows the *)
(* query it returns selects                                                *)
(***************************************************************************)

MaxLabels == 2
MaxFields == 2
MaxDepth  == 3

Langs      == {"en", "fr"}
FieldItems == {<<"iso_3166_2", "P300">>, <<"gnis", "P590">>}
Conditions == {"", "!BOUND(?gnis) || REGEX(?gnis, \"[0-9]+\")"}
Id2Rules   == {<<>>,
               <<"OPTIONAL { ?id1 wdt:P3403 ?id2 . }">>,
               <<"BIND(if(?id1=wd:Q57251, wd:Q865, ?id1)  AS ?id2)">>}
EntityArgs == {Str("Q16"), List(<<"Q30", "Q16">>)}

SeqsUpTo(S, n) == UNION {[1..k -> S] : k \in 0..n}

\* A dict has one item per key.
Dicts(items, n) ==
  {f \in SeqsUpTo(items, n) : \A i, j \in 1..Len(f) : f[i][1] = f[j][1] => i = j}

ArgSets ==
  [entities : EntityArgs, labels : SeqsUpTo(Langs, MaxLabels),
   fields : Dicts(FieldItems, MaxFields), depth : 1..MaxDepth,
   condition : Conditions, id2_generator : Id2Rules]

IdleDriver ==
  /\ run = 0
  /\ pc = "idle"
  /\ idx = 0
  /\ fs = [p \in Paths |-> NoFile]
  /\ response = NoResponse
  /\ statuses = {}
  /\ log = <<>>

InitBuilder ==
  /\ IdleDriver
  /\ args \in ArgSets
  /\ out = ""
  /\ row = NoRow

\* query = sparql(entities, labels, fields, depth, condition, id2_generator)
Build ==
  /\ out = ""
  /\ out' = sparql(args.entities, args.labels, args.fields, args.depth,
                   args.condition, args.id2_generator)
  /\ UNCHANGED <<dvars, args, row>>

\* str.split(sep) for a one-character sep.
Split(s, sep) ==
  LET at    == {i \in 1..Len(s) : CharAt(s, i) = sep}
      nth(k) == IF k = 0 THEN 0
                ELSE IF k > Cardinality(at) THEN Len(s) + 1
                ELSE CHOOSE i \in at : Cardinality({j \in at : j < i}) = k - 1
  IN  [k \in 1..(Cardinality(at) + 1) |-> SubSeq(s, nth(k - 1) + 1, nth(k) - 1)]

Lines(s) == Split(s, "\n")

StartsWith(s, prefix) == Len(s) >= Len(prefix) /\ SubSeq(s, 1, Len(prefix)) = prefix
Contains(s, sub) == Occurrences(s, sub) # {}

\* The first index at or after from of a line equal to text, 0 when there is none.
LineIndex(lines, text, from) ==
  LET at == {i \in from..Len(lines) : lines[i] = text}
  IN  IF at = {} THEN 0 ELSE CHOOSE i \in at : \A j \in at : i <= j

\* The inner WHERE block of a query: the lines between the second "WHERE {"
\* and the "}" that closes it, as a set of line numbers.
InnerWhere(lines) ==
  LET outer == LineIndex(lines, "WHERE {", 1)
      inner == LineIndex(lines, "WHERE {", outer + 1)
      close == LineIndex(lines, "}", inner + 1)
  IN  (inner + 1)..(close - 1)

IsComment(line) == StartsWith(line, "#") \/ StartsWith(line, "  #")

\* Whether a pattern of the inner WHERE block mentions ?id2: only then can a
\* solution of the block bind it.
BindsId2(q) ==
  LET lines == Lines(q)
  IN  \E i \in InnerWhere(lines) : ~IsComment(lines[i]) /\ Contains(lines[i], "?id2")

Ids       == {"wd:Q57251"}
Canonical == {"wd:Q7", "wd:Q865"}
Unbound   == ""

\* (SAMPLE(?id2) as ?id2) over the solutions of one ?id1 group: one of the
\* bound values, unbound when no solution binds ?id2.
Sample(values) == IF values = {} THEN {Unbound} ELSE values

\* The projection with its two branches exchanged.
OuterId_Swapped(id1, id2) == IF id2 # Unbound THEN id1 ELSE id2

\* (if(bound(?id2),?id2,?id1) as ?id)
OuterId(id1, id2) == IF id2 # Unbound THEN id2 ELSE id1

\* One row of the result: the group of one ?id1, whose solutions bind ?id2 to
\* the values cand (none unless a pattern of the block mentions ?id2).
Execute ==
  /\ out # ""
  /\ row = NoRow
  /\ \E id1 \in Ids, cand \in (IF BindsId2(out) THEN SUBSET Canonical ELSE {{}}) :
       /\ \E id2 \in Sample(cand) :
            row' = [id1 |-> id1, cand |-> cand, id2 |-> id2, id |-> OuterId(id1, id2)]
  /\ UNCHANGED <<dvars, args, out>>

NextBuilder ==
  \/ Build
  \/ Execute

SpecBuilder == InitBuilder /\ [][NextBuilder]_vars

(***************************************************************************)
(* Properties of the driver (checked under Spec)                           *)
(***************************************************************************)

\* The positions of the log at which op was applied to arg.
At(op, arg) == {k \in 1..Len(log) : log[k] = Event(op, arg)}
\* The positions of the log at which op was applied.
AtOp(op) == {k \in 1..Len(log) : log[k].op = op}

ItemPrefix(i) == "* [" \o Catalog[i].name \o "]("

\* The lines of QUERIES.md (the text after the last newline not counted).
ManifestLines ==
  LET ls == Lines(fs[QueriesPath].text)
  IN  SubSeq(ls, 1, Len(ls) - 1)

\* urllib.parse.unquote, for the characters CharCode knows.
Chr(code) ==
  IF code = 10 THEN "\n"
  ELSE IF code < 96 THEN CharAt(Printable32, code - 31)
  ELSE CharAt(Printable97, code - 96)
HexValue(h) == Find(HexDigits, h, 1) - 1
Unquote(s) ==
  Concat([i \in 1..Len(s) |->
            IF CharAt(s, i) = "%"
              THEN Chr(16 * HexValue(CharAt(s, i + 1)) + HexValue(CharAt(s, i + 2)))
            ELSE IF (i > 1 /\ CharAt(s, i - 1) = "%") \/ (i > 2 /\ CharAt(s, i - 2) = "%")
              THEN ""
            ELSE CharAt(s, i)])

\* The text of s after its prefix.
After(s, prefix) == SubSeq(s, Len(prefix) + 1, Len(s))

\* C1: a run that finds no QUERIES.md is not aborted by the failed deletion:
\* the "not found" error is suppressed and the run goes on to the header.
C1_NotFoundSuppressed ==
  (Len(log) > 0 /\ log[1] = Event("raise", "FileNotFoundError")) => pc # "aborted"

\* The request in progress when the run was aborted by a response: its file
\* type, as the URL requested last tells.
FailedType == CHOOSE t \in 1..2 : log[Len(log) - 1] = Event("get", Url[t][idx])

\* C2 as stated: once a request of an entry got a non-2xx response, the run
\* is aborted and no artifact of that entry has been written in the run.
C2_NoArtifactForEntry ==
  (response # NoResponse /\ response.status \notin 200..299) =>
     /\ pc = "aborted"
     /\ \A t \in 1..2 : At("write", ArtifactPath(FileTypes[t], Catalog[idx].name)) = {}

\* C2 as amended: once a request of an entry got a 4xx or 5xx response, the
\* run is aborted, the request was issued once only, and no artifact was
\* written for the file type of that request; when it is the geojson request
\* that failed, the topojson artifact of the entry was written before and is
\* still there.
C2_NoArtifactForRequest ==
  (response # NoResponse /\ response.status \in 400..599) =>
     /\ pc = "aborted"
     /\ Cardinality(At("get", Url[FailedType][idx])) = 1
     /\ At("write", ArtifactPath(FileTypes[FailedType], Catalog[idx].name)) = {}
     /\ FailedType = 2 =>
          /\ At("write", ArtifactPath("topojson", Catalog[idx].name)) # {}
          /\ fs[ArtifactPath("topojson", Catalog[idx].name)] = File(ResponseText(run))

C2_Witness ==
  /\ pc = "aborted"
  /\ response.status = 404
  /\ FailedType = 2

\* C3 as stated: after a request of the run failed, by a transport failure or
\* a non-2xx response, no step of the run requests, writes or appends anything.
C3_FailFastNon2xx ==
  [][(\E st \in statuses : st \notin 200..299) => (fs' = fs /\ log' = log)]_vars

\* C3 as amended: after a request of the run failed, by a transport failure
\* or a 4xx or 5xx response, no step of the run requests, writes or appends
\* anything: the files and the log of operations stay as they are.
C3_FailFast ==
  [][(\E st \in statuses : st = 0 \/ st \in 400..599) => (fs' = fs /\ log' = log)]_vars

C3_Witness ==
  /\ pc = "aborted"
  /\ 0 \in statuses
  /\ AtOp("write") # {}
  /\ idx < N

\* C4: at the end of a run every entry has its two artifacts, each written
\* once in the run and holding the response, and one manifest line; the two
\* URLs requested for it and the link of its manifest line embed, quoted, the
\* query built for the entry.
C4_TwoArtifactsOneLine ==
  pc = "done" =>
    LET lines == ManifestLines
    IN  /\ Cardinality(AtOp("write")) = 2 * N
        /\ Cardinality(AtOp("get")) = 2 * N
        /\ Len(lines) = N + 2
        /\ \A i \in 1..N :
             /\ \A t \in 1..2 :
                  LET path == ArtifactPath(FileTypes[t], Catalog[i].name)
                      pre  == "https://sophox.org/regions/" \o FileTypes[t] \o ".json?sparql="
                  IN  /\ Cardinality(At("write", path)) = 1
                      /\ fs[path] = File(ResponseText(run))
                      /\ \A k \in At("write", path) :
                           /\ log[k - 1].op = "get"
                           /\ StartsWith(log[k - 1].arg, pre)
                           /\ Unquote(After(log[k - 1].arg, pre)) = Query[i]
             /\ LET items == {k \in 1..Len(lines) : StartsWith(lines[k], ItemPrefix(i))}
                    pre   == ItemPrefix(i) \o "https://sophox.org/sophox/#"
                IN  /\ Cardinality(items) = 1
                    /\ \A k \in items :
                         /\ StartsWith(lines[k], pre)
                         /\ CharAt(lines[k], Len(lines[k])) = ")"
                         /\ Unquote(SubSeq(lines[k], Len(pre) + 1, Len(lines[k]) - 1)) = Query[i]

C4_Witness == pc = "done" /\ run = 1

\* C5: after a second completed run QUERIES.md is the header line, a blank
\* line and one list item per catalog entry in catalog order, and it is what
\* the second run appended: nothing of the first run is left.
C5_ManifestTruncated ==
  (pc = "done" /\ run >= 2) =>
    LET lines    == ManifestLines
        appended == AtOp("append")
    IN  /\ Len(lines) = N + 2
        /\ lines[1] = "# Auto-generated list of queries"
        /\ lines[2] = ""
        /\ \A i \in 1..N : StartsWith(lines[i + 2], ItemPrefix(i))
        /\ fs[QueriesPath].text =
             Concat([j \in 1..Cardinality(appended) |->
                       log[CHOOSE k \in appended :
                             Cardinality({m \in appended : m < k}) = j - 1].arg])

C5_Witness == pc = "done" /\ run = 2

\* The manifest lines that are list items, in order.
ItemLines == SelectSeq(ManifestLines, LAMBDA l : StartsWith(l, "* ["))

\* C10: in every state the list items of QUERIES.md are those of the first
\* entries of the catalog, in catalog order; an artifact written in the run
\* is of an entry whose manifest line the run appended before; and a geojson
\* artifact is written after the topojson artifact of its entry.
C10_ManifestFirst ==
  /\ LET items == ItemLines
     IN  /\ Len(items) <= N
         /\ \A i \in 1..Len(items) : StartsWith(items[i], ItemPrefix(i))
  /\ \A i \in 1..N : \A t \in 1..2 :
       \A k \in At("write", ArtifactPath(FileTypes[t], Catalog[i].name)) :
         /\ \E j \in 1..(k - 1) : log[j] = Event("append", Line[i])
         /\ t = 2 => \E j \in 1..(k - 1) :
                       log[j] = Event("write", ArtifactPath("topojson", Catalog[i].name))

C10_Witness ==
  /\ pc = "aborted"
  /\ idx = 3
  /\ At("write", ArtifactPath("geojson", Catalog[2].name)) # {}
  /\ At("write", ArtifactPath("topojson", Catalog[3].name)) # {}

(***************************************************************************)
(* Properties of the query builder (checked under SpecBuilder)             *)
(***************************************************************************)

\* sparql has returned, and no row of the query has been looked at yet.
Built == out # "" /\ row = NoRow

Range(f) == {f[i] : i \in DOMAIN f}

\* The clauses as the documentation of sparql describes them, written out.
LabelText(l) ==
  "  OPTIONAL { ?id1 rdfs:label ?label_" \o l \o " . FILTER(LANG(?label_" \o l
    \o ") = \"" \o l \o "\") }"
FieldText(f)  == "  OPTIONAL { ?id1 wdt:" \o f[2] \o " ?" \o f[1] \o " }"
FilterText(c) == "  FILTER(" \o c \o ")"

IsLabelClause(line) == StartsWith(line, "  OPTIONAL { ?id1 rdfs:label ")
IsFieldClause(line) == StartsWith(line, "  OPTIONAL { ?id1 wdt:")

\* The variables of the outer selection: the words of the line that follows
\* the ?id projection.
OuterVars(lines) ==
  LET at == LineIndex(lines, "  (if(bound(?id2),?id2,?id1) as ?id)", 1)
  IN  SelectSeq(Split(lines[at + 1], " "), LAMBDA w : w # "")

Count(seq, v) == Cardinality({i \in 1..Len(seq) : seq[i] = v})

\* C6 as stated: the FILTER clause of a given condition comes, in the inner
\* WHERE block, after every id2 clause, every label clause and every field
\* clause.
C6_FilterAfterAllClauses ==
  (Built /\ args.condition # "") =>
    LET lines == Lines(out)
        block == InnerWhere(lines)
        filter == {i \in block : lines[i] = FilterText(args.condition)}
    IN  /\ filter # {}
        /\ \A f \in filter : \A j \in block :
             (lines[j] \in Range(args.id2_generator) \/ IsLabelClause(lines[j])
                \/ IsFieldClause(lines[j])) => j < f

\* C6 as amended: the FILTER clause of a given condition is one line of the
\* inner WHERE block, after every id2 clause and before every label clause
\* and every field clause; without a condition the block has no FILTER line.
C6_FilterAfterId2Clauses ==
  Built =>
    LET lines == Lines(out)
        block == InnerWhere(lines)
        filter == {i \in block : StartsWith(lines[i], "  FILTER(")}
        id2    == {i \in block : lines[i] \in Range(args.id2_generator)}
        later  == {i \in block : IsLabelClause(lines[i]) \/ IsFieldClause(lines[i])}
    IN  /\ Cardinality(id2) = Len(args.id2_generator)
        /\ Cardinality(later) = Len(args.labels) + Len(args.fields)
        /\ IF args.condition = "" THEN filter = {}
           ELSE /\ Cardinality(filter) = 1
                /\ \A f \in filter :
                     /\ lines[f] = FilterText(args.condition)
                     /\ \A j \in id2 : j < f
                     /\ \A j \in later : f < j

C6_Witness ==
  /\ Built
  /\ args.condition # ""
  /\ args.id2_generator # <<>>
  /\ Len(args.labels) = 2
  /\ Len(args.fields) = 2

\* C7: the ?id of a result row is the ?id2 of the row when the solutions of
\* its group bind one, a value the canonical-id rule gave, and ?id1 when they
\* bind none; with an empty id2_generator it is ?id1.
C7_OutputId ==
  row # NoRow =>
    /\ row.cand # {} => (row.id = row.id2 /\ row.id \in row.cand)
    /\ row.cand = {} => row.id = row.id1
    /\ args.id2_generator = <<>> => row.id = row.id1

C7_Witness ==
  /\ row # NoRow
  /\ args.id2_generator # <<>>
  /\ Cardinality(row.cand) = 2
  /\ row.id = "wd:Q865"

\* C8: the path between ?entity and ?id1 in the traversal clause is depth
\* times wdt:P150, with a "/" between two of them and nothing else.
C8_DepthComposed ==
  Built =>
    LET lines == Lines(out)
        at    == {i \in InnerWhere(lines) : StartsWith(lines[i], "  ?entity ")}
        d     == args.depth
    IN  /\ Cardinality(at) = 1
        /\ \A i \in at :
             LET rest == After(lines[i], "  ?entity ")
                 path == SubSeq(rest, 1, Len(rest) - Len(" ?id1 ."))
             IN  /\ After(rest, path) = " ?id1 ."
                 /\ Len(path) = 9 * d - 1
                 /\ \A k \in 1..d :
                      /\ SubSeq(path, 9 * (k - 1) + 1, 9 * (k - 1) + 8) = "wdt:P150"
                      /\ k < d => CharAt(path, 9 * k) = "/"

C8_Witness == Built /\ args.depth = 2

\* C9 as stated: for every language of the list the query has one label
\* clause and the outer selection one ?label_<lang>; for every item of fields
\* the query has one field clause and the outer selection one ?k.
C9_OneClausePerLanguage ==
  Built =>
    LET lines == Lines(out)
        block == InnerWhere(lines)
        vars0 == OuterVars(lines)
    IN  /\ \A l \in Range(args.labels) :
             /\ Cardinality({i \in block : lines[i] = LabelText(l)}) = 1
             /\ Count(vars0, "?label_" \o l) = 1
        /\ \A f \in Range(args.fields) :
             /\ Cardinality({i \in block : lines[i] = FieldText(f)}) = 1
             /\ Count(vars0, "?" \o f[1]) = 1

\* C9 as amended: the label clauses of the inner WHERE block are, in order,
\* one per element of the languages list, the field clauses one per item of
\* fields, and the outer selection is one ?k per item of fields followed by
\* one ?label_<lang> per element of the list: a language the list holds n
\* times has n clauses and n variables.
C9_OneClausePerElement ==
  Built =>
    LET lines == Lines(out)
        block == InnerWhere(lines)
        body  == [i \in 1..Cardinality(block) |->
                    lines[CHOOSE j \in block : Cardinality({m \in block : m < j}) = i - 1]]
    IN  /\ SelectSeq(body, IsLabelClause) = [i \in 1..Len(args.labels) |-> LabelText(args.labels[i])]
        /\ SelectSeq(body, IsFieldClause) = [i \in 1..Len(args.fields) |-> FieldText(args.fields[i])]
        /\ OuterVars(lines) = [i \in 1..Len(args.fields) |-> "?" \o args.fields[i][1]]
                                \o [i \in 1..Len(args.labels) |-> "?label_" \o args.labels[i]]

C9_Witness ==
  /\ Built
  /\ args.labels = <<"en", "en">>
  /\ Len(args.fields) = 2
====
